---- MODULE Spec2Model ----
(***************************************************************************)
(* Model of the monitoring dashboard script src/app.py: the TTL-cached     *)
(* fetch layer (ops_get, do_metric), the matrix parser, the memory-used    *)
(* join, the status aggregation and the top-to-bottom render pass that     *)
(* the framework re-executes after every widget interaction.               *)
(***************************************************************************)
EXTENDS Integers, Sequences, FiniteSets, TLC

(***************************************************************************)
(* Bounds of the model.                                                    *)
(***************************************************************************)
\* longest "values" list of a matrix payload, longest metric series
MaxPairs == 2
\* largest number of configured services in the aggregation inputs
MaxServices == 2
\* seconds by which the clock advances in one Tick
TickStep == 15
\* last clock value at which the clock may still advance
MaxTime == 15

(***************************************************************************)
(* Program constants.                                                      *)
(***************************************************************************)
OPS_TTL == 10
DO_TTL == 30
RANGE_HOURS == 6
QUICK_METRICS_SERVICES == 2

(***************************************************************************)
(* Python values.  A JSON scalar is [kind, n]:                             *)
(*   "int"      the integer n            "float"    the number n + 1/2     *)
(*   "intstr"   the string "n"           "floatstr" the string "n.5"       *)
(*   "badstr"   a string that is no number          "null"  None           *)
(* A float64 is kept exactly as a fraction [num, den]; den = 0 stands for  *)
(* the IEEE results of a division by zero: num = 1 is +inf, -1 is -inf,    *)
(* 0 is NaN.                                                               *)
(***************************************************************************)
Sc(k, n) == [kind |-> k, n |-> n]

Raise == [ok |-> FALSE, v |-> 0]

Abs(x) == IF x < 0 THEN -x ELSE x

RECURSIVE Gcd(_, _)
Gcd(a, b) == IF b = 0 THEN a ELSE Gcd(b, a % b)

\* the fraction n/d in lowest terms with a positive denominator (d # 0)
Frac(n, d) ==
    LET g == Gcd(Abs(n), Abs(d))
        s == IF d < 0 THEN -1 ELSE 1
    IN  [num |-> (s * n) \div g, den |-> (s * d) \div g]

\* int(ts), line 111: truncates a float, parses an integer literal, raises
\* ValueError on "1.5" or a non-number and TypeError on None
PyInt(x) ==
    IF x.kind \in {"int", "float", "intstr"}
    THEN [ok |-> TRUE, v |-> x.n]
    ELSE Raise

\* float(val), line 111
PyFloat(x) ==
    IF x.kind \in {"int", "intstr"} THEN [ok |-> TRUE, v |-> Frac(x.n, 1)]
    ELSE IF x.kind \in {"float", "floatstr"}
         THEN [ok |-> TRUE, v |-> Frac(2 * x.n + 1, 2)]
         ELSE Raise

(***************************************************************************)
(* _parse_matrix, lines 103-114.                                           *)
(* A payload is [top, data, result, series]: top says whether the payload  *)
(* is a mapping, data and result say what the "data" and "result" keys     *)
(* hold ("absent", "null", "other" for a value of the wrong type, "dict"   *)
(* or "list"), series is the list under "result".  A series is             *)
(* [kind, values, entries] and an entry of "values" is [shape, ts, val]:   *)
(*   "pair"   a two-element list [ts, val]                                 *)
(*   "str2"   a two-character string, which Python unpacks into its two    *)
(*            one-character strings ts and val                             *)
(*   "one", "three"  a list of one or of three elements                    *)
(*   "scalar" a number                                                     *)
(***************************************************************************)
EmptyFrame == << >>

\* `for ts, val in values`, line 110: the entry unpacks into two items
Unpacks(e) == e.shape \in {"pair", "str2"}

\* faulty variant: a bad entry is skipped instead of ending the parse
RowsSkipBad(values, rows) ==
    LET RECURSIVE go(_, _)
        go(vs, rs) ==
            IF vs = << >> THEN [ok |-> TRUE, rows |-> rs]
            ELSE LET e == Head(vs)
                     t == PyInt(e.ts)
                     v == PyFloat(e.val)
                 IN  IF Unpacks(e) /\ t.ok /\ v.ok
                     THEN go(Tail(vs), Append(rs, [ts |-> t.v, value |-> v.v]))
                     ELSE go(Tail(vs), rs)
    IN  go(values, rows)

\* lines 109-111: the rows of the frame, or the exception that ends the loop
RECURSIVE ParseRows(_, _)
ParseRows(values, rows) ==
    IF values = << >> THEN [ok |-> TRUE, rows |-> rows]
    ELSE LET e == Head(values)
         IN  IF ~Unpacks(e) THEN [ok |-> FALSE, rows |-> << >>]
             ELSE LET t == PyInt(e.ts)
                      v == PyFloat(e.val)
                  IN  IF ~t.ok \/ ~v.ok THEN [ok |-> FALSE, rows |-> << >>]
                      ELSE ParseRows(Tail(values),
                                     Append(rows, [ts |-> t.v, value |-> v.v]))

_parse_matrix(payload) ==
    IF payload.top # "dict" THEN EmptyFrame                   \* .get raises
    ELSE IF payload.data = "absent" THEN EmptyFrame           \* {} -> []
    ELSE IF payload.data # "dict" THEN EmptyFrame             \* .get raises
    ELSE IF payload.result \in {"absent", "null"} THEN EmptyFrame
    ELSE IF payload.result # "list" THEN EmptyFrame           \* falsy, or [0] raises
    ELSE IF payload.series = << >> THEN EmptyFrame            \* line 106
    ELSE LET first == payload.series[1]
         IN  IF first.kind # "dict" THEN EmptyFrame           \* .get raises
             ELSE IF first.values = "absent" THEN EmptyFrame  \* rows = []
             ELSE IF first.values # "list" THEN EmptyFrame    \* not iterable
             ELSE LET r == ParseRows(first.entries, << >>)
                  IN  IF r.ok THEN r.rows ELSE EmptyFrame

(***************************************************************************)
(* mem_used_pct, lines 130-134, on the two frames do_metric returned.      *)
(* A frame is a sequence of rows [ts, value].                              *)
(***************************************************************************)
Sign(x) == IF x > 0 THEN 1 ELSE IF x < 0 THEN -1 ELSE 0

\* line 133 on one joined row: (1.0 - value_avail / value_total) * 100.0,
\* a float division, which yields inf or NaN when value_total is 0
UsedPct(a, t) ==
    IF t.num = 0
    THEN [num |-> -Sign(a.num), den |-> 0]
    ELSE LET n == a.num * t.den
             d == a.den * t.num
         IN  Frac((d - n) * 100, d)

\* the rows of `right` whose ts equals that of the left row, in right's order
RECURSIVE Matches(_, _)
Matches(l, right) ==
    IF right = << >> THEN << >>
    ELSE (IF Head(right).ts = l.ts
          THEN << [ts |-> l.ts, value_avail |-> l.value,
                   value_total |-> Head(right).value] >>
          ELSE << >>) \o Matches(l, Tail(right))

\* faulty variant: a left join, which keeps the unmatched left rows
MergeLeft(left, right) ==
    LET RECURSIVE go(_)
        go(ls) ==
            IF ls = << >> THEN << >>
            ELSE LET m == Matches(Head(ls), right)
                 IN  (IF m = << >>
                      THEN << [ts |-> Head(ls).ts, value_avail |-> Head(ls).value,
                               value_total |-> Frac(1, 1)] >>
                      ELSE m) \o go(Tail(ls))
    IN  go(left)

\* pd.merge(avail, total, on="ts"), line 132: an inner join, which keeps the
\* order of the left keys and pairs every left row with every matching right row
RECURSIVE Merge(_, _)
Merge(left, right) ==
    IF left = << >> THEN << >>
    ELSE Matches(Head(left), right) \o Merge(Tail(left), right)

mem_used_pct(avail, total) ==
    IF avail = << >> \/ total = << >> THEN EmptyFrame
    ELSE LET df == Merge(avail, total)
         IN  [i \in 1..Len(df) |->
                 [ts |-> df[i].ts,
                  value |-> UsedPct(df[i].value_avail, df[i].value_total)]]

(***************************************************************************)
(* Status aggregation, lines 156-169.                                      *)
(* A summary is [top, components, comps]: top says whether the response is *)
(* a mapping, components what its "components" key holds, comps the        *)
(* mapping itself: per service key an entry [entry, status], where entry   *)
(* is "absent" (no such key), "null" or "dict" and status is what the      *)
(* entry's "status" field holds.                                           *)
(***************************************************************************)
PyAbsent == "<absent>"
PyNone == "<None>"
PyNumber == "<number>"

StatusStrings == {"up", "UP", "Up", "down", "DOWN", "unknown", "degraded", ""}

\* str.lower()
Lower(s) ==
    CASE s \in {"up", "UP", "Up"} -> "up"
      [] s \in {"down", "DOWN"} -> "down"
      [] OTHER -> s

\* faulty variant: no default for a missing or null entry
StatusOfRaising(comps, key) ==
    LET c == comps[key]
    IN  IF c.entry # "dict" THEN PyNumber
        ELSE IF c.status = PyAbsent THEN "unknown"
        ELSE c.status

\* line 162: (components.get(key, {}) or {}).get("status", "unknown")
StatusOf(comps, key) ==
    LET c == comps[key]
    IN  IF c.entry # "dict" THEN "unknown"
        ELSE IF c.status = PyAbsent THEN "unknown"
        ELSE c.status

\* (s or "").lower() of lines 165-166; a truthy non-string has no lower()
Norm(s) == IF s = PyNone THEN "" ELSE Lower(s)

RECURSIVE CountOf(_, _)
CountOf(statuses, which) ==
    IF statuses = << >> THEN 0
    ELSE (IF Norm(Head(statuses)) = which THEN 1 ELSE 0)
         + CountOf(Tail(statuses), which)

\* faulty variant: unknown services are looked at before down ones
OverallDegradedFirst(down_count, unk_count) ==
    IF unk_count > 0 THEN "DEGRADED"
    ELSE IF down_count > 0 THEN "DOWN" ELSE "OK"

\* line 169
Overall(down_count, unk_count) ==
    IF down_count = 0 /\ unk_count = 0 THEN "OK"
    ELSE IF down_count = 0 THEN "DEGRADED" ELSE "DOWN"

NoAggregate == [ok |-> FALSE, up |-> 0, down |-> 0, unk |-> 0, overall |-> "none"]

\* lines 156-169: the counts and the verdict, or ok = FALSE when a line raises
Aggregate(services, summary) ==
    LET noMapping == summary.top # "dict" \/ summary.components = "absent"
        statuses == [i \in 1..Len(services) |->
                        IF noMapping THEN "unknown"
                        ELSE StatusOf(summary.comps, services[i].key)]
        down_count == CountOf(statuses, "down")
        up_count == CountOf(statuses, "up")
        unk_count == Len(statuses) - down_count - up_count
    IN  IF ~noMapping /\ summary.components # "dict" /\ services # << >>
        THEN NoAggregate                          \* components.get raises
        ELSE IF \E i \in 1..Len(statuses) : statuses[i] = PyNumber
        THEN NoAggregate                          \* .lower() raises
        ELSE [ok |-> TRUE, up |-> up_count, down |-> down_count,
              unk |-> unk_count, overall |-> Overall(down_count, unk_count)]

(***************************************************************************)
(* The dashboard: state of the script and of the framework around it.      *)
(***************************************************************************)
VARIABLES
    SERVICES,           \* line 20: the configured services, [key, droplet_id]
    DO_TOKEN,           \* line 15: whether a cloud token is configured
    now,                \* the wall clock, in seconds
    cache,              \* st.cache_data: key -> [at, val]
    hours,              \* line 175: the slider's value
    show_only_errors,   \* line 176: the toggle's value
    clicked,            \* line 177: the button's value in the running pass
    pc,                 \* where the render pass stands
    tab,                \* the tab whose metric cards are being rendered
    i,                  \* the service those cards belong to
    agg,                \* lines 165-169
    avail,              \* line 128
    view,               \* the elements rendered so far in this pass
    calls,              \* number of cached-function calls of this pass
    lastCall,           \* the latest call of this pass and what served it
    fetched,            \* key -> [at, ok]: its latest network call since the last clear
    pre,                \* keys whose cache entry was stored before the latest interaction
    trigger,            \* what started this pass
    summary,            \* input of the status aggregation: line 151
    total,              \* input of mem_used_pct besides avail: line 129
    mem,                \* what mem_used_pct returned
    payload,            \* input of _parse_matrix
    parsed              \* what _parse_matrix returned

vars == << SERVICES, DO_TOKEN, now, cache, hours, show_only_errors, clicked,
           pc, tab, i, agg, avail, view, calls, lastCall,
           fetched, pre, trigger, summary, total, mem, payload, parsed >>

config == << SERVICES, DO_TOKEN >>
widgets == << hours, show_only_errors >>
locals == << agg, avail >>
fnvars == << summary, total, mem, payload, parsed >>

SLIDER_MAX == 24

Svc(k, d) == [key |-> k, droplet_id |-> d]
Comp(e, s) == [entry |-> e, status |-> s]
Row(t, n) == [ts |-> t, value |-> Frac(n, 1)]

ServiceKeys == {"fe", "be"}

\* the service lists of the dashboard's runs: none, a front end with a
\* droplet followed by a back end without one, or that back end alone
ServiceConfigs ==
    { << >>,
      << Svc("fe", "d1"), Svc("be", "") >>,
      << Svc("be", "") >> }

\* line 286: the selectbox stands at index 0, the first service
pick == 1

\* the slider positions the user moves between
HoursChoices == {RANGE_HOURS, SLIDER_MAX}

NoSummary == [top |-> "none", components |-> "absent",
              comps |-> [k \in ServiceKeys |-> Comp("absent", PyAbsent)]]

\* what GET /dashboard/summary answers when it answers
SummaryResponses ==
    { [top |-> "dict", components |-> "dict",
       comps |-> [k \in ServiceKeys |->
                     IF k = "fe" THEN Comp("dict", "up") ELSE Comp("absent", PyAbsent)]] }

\* what GET /dashboard/logs?limit=300 answers when it answers: the list under "logs"
LogsResponses == { << [ts |-> 1, level |-> "info"], [ts |-> 2, level |-> "error"] >> }

Pair(t, v) == [shape |-> "pair", ts |-> t, val |-> v]
Series(es) == [kind |-> "dict", values |-> "list", entries |-> es]
Matrix(ss) == [top |-> "dict", data |-> "dict", result |-> "list", series |-> ss]

\* what the metrics API answers when it answers
MetricResponses ==
    { Matrix(<< Series(<< Pair(Sc("int", 1), Sc("intstr", 30)) >>) >>) }

SummaryKey == << "ops_get", "/dashboard/summary", "", 0 >>
LogsKey == << "ops_get", "/dashboard/logs?limit=300", "", 0 >>
MetricKey(metric, droplet_id, h) == << "do_metric", metric, droplet_id, h >>

NoKey == << "none", "", "", 0 >>
NoCall == [key |-> NoKey, at |-> 0, hit |-> FALSE, net |-> FALSE, ok |-> TRUE,
           old |-> FALSE, prevAt |-> -1, prevOk |-> FALSE]

\* ttl=10 of line 91, ttl=30 of line 116
TTL(k) == IF k[1] = "ops_get" THEN OPS_TTL ELSE DO_TTL

\* faulty variant: an entry exactly ttl old is still served
FreshInclusive(k) == k \in DOMAIN cache /\ now - cache[k].at <= TTL(k)

\* the decorator's lookup: an entry is served while less than ttl old
Fresh(k) == k \in DOMAIN cache /\ now - cache[k].at < TTL(k)

Out(h, n, o, v) == [hit |-> h, net |-> n, ok |-> o, val |-> v]

\* lines 93-96: the request raises, or returns the decoded body
ops_get(k) ==
    { Out(FALSE, TRUE, FALSE, IF k = SummaryKey THEN NoSummary ELSE << >>) }
    \cup { Out(FALSE, TRUE, TRUE, r) :
             r \in IF k = SummaryKey THEN SummaryResponses ELSE LogsResponses }

\* lines 118-125: no request without token or droplet id
do_metric(k) ==
    IF ~DO_TOKEN \/ k[3] = ""
    THEN { Out(FALSE, FALSE, TRUE, EmptyFrame) }
    ELSE { Out(FALSE, TRUE, FALSE, EmptyFrame) }
         \cup { Out(FALSE, TRUE, TRUE, _parse_matrix(p)) : p \in MetricResponses }

\* a call of a cached function: served from a fresh entry, else the body runs
Outcomes(k) ==
    IF Fresh(k) THEN { Out(TRUE, FALSE, TRUE, cache[k].val) }
    ELSE IF k[1] = "ops_get" THEN ops_get(k) ELSE do_metric(k)

\* the decorator stores what the body returns; an exception stores nothing
Store(k, o) ==
    IF ~o.hit /\ o.ok THEN (k :> [at |-> now, val |-> o.val]) @@ cache ELSE cache

\* the call's effect on the cache, and the record of it
Called(k, o) ==
    /\ cache' = Store(k, o)
    /\ fetched' = IF o.net THEN (k :> [at |-> now, ok |-> o.ok]) @@ fetched ELSE fetched
    /\ pre' = IF ~o.hit /\ o.ok THEN pre \ {k} ELSE pre
    /\ calls' = calls + 1
    /\ lastCall' = [key |-> k, at |-> now, hit |-> o.hit, net |-> o.net, ok |-> o.ok,
                    old |-> o.hit /\ k \in pre,
                    prevAt |-> IF k \in DOMAIN fetched THEN fetched[k].at ELSE -1,
                    prevOk |-> k \in DOMAIN fetched /\ fetched[k].ok]

(***************************************************************************)
(* The render pass: the script, top to bottom.                             *)
(***************************************************************************)
Idle == {"done", "halted", "crashed"}

Rendered(e) == \E n \in 1..Len(view) : view[n] = e

Goto(p, t, j, v) == pc' = p /\ tab' = t /\ i' = j /\ view' = v

\* an exception nothing catches ends the pass; the framework shows it
Crash == Goto("crashed", tab, i, Append(view, "exception"))

\* the framework starts the script again from line 1
NewPass(trig) ==
    /\ pc' = "summary" /\ tab' = "none" /\ i' = 0
    /\ agg' = NoAggregate /\ avail' = EmptyFrame
    /\ view' = << >> /\ calls' = 0 /\ lastCall' = NoCall
    /\ trigger' = trig
    /\ pre' = DOMAIN cache'

\* lines 246-250: the next of the first two services that has a droplet id
NextDroplet(from) ==
    LET last == IF Len(SERVICES) < QUICK_METRICS_SERVICES
                THEN Len(SERVICES) ELSE QUICK_METRICS_SERVICES
        js == { j \in from..last : SERVICES[j].droplet_id # "" }
    IN  IF js = {} THEN 0 ELSE CHOOSE j \in js : \A m \in js : j <= m

\* lines 284-291: the metrics tab's cards are those of the selected service
EnterMetrics(v) ==
    IF SERVICES = << >> THEN Goto("logs", "none", 0, v)
    ELSE Goto("cpu", "metrics", pick, Append(v, "selectbox"))

EnterCards(from, v) ==
    LET j == NextDroplet(from)
    IN  IF j # 0 THEN Goto("cpu", "overview", j, v) ELSE EnterMetrics(v)

Banner(overall) ==
    CASE overall = "DOWN" -> "banner-down"
      [] overall = "DEGRADED" -> "banner-warn"
      [] OTHER -> "banner-ok"

\* faulty variant: the error is shown but the script is not stopped
SummaryFailureContinues(o) ==
    /\ agg' = NoAggregate
    /\ Goto("sidebar", tab, i, << "error" >>)

\* lines 152-154: st.error, st.stop
SummaryFailure(o) ==
    /\ agg' = NoAggregate
    /\ Goto("halted", tab, i, << "error" >>)

\* lines 150-169
LoadSummary ==
    /\ pc = "summary"
    /\ \E o \in Outcomes(SummaryKey) :
          /\ Called(SummaryKey, o)
          /\ IF ~o.ok THEN SummaryFailure(o)
             ELSE /\ agg' = Aggregate(SERVICES, o.val)
                  /\ IF agg'.ok THEN Goto("sidebar", tab, i, view) ELSE Crash
    /\ UNCHANGED << config, now, widgets, clicked, avail, trigger, fnvars >>

\* faulty variant: the handler reruns without clearing
ClearNothing(c) == c

\* line 178: st.cache_data.clear()
ClearAll(c) == << >>

\* lines 177-179: the button was pressed: clear every cache, run again
Refresh ==
    /\ pc = "sidebar" /\ clicked
    /\ cache' = ClearAll(cache)
    /\ fetched' = << >>
    /\ clicked' = FALSE
    /\ NewPass("refresh")
    /\ UNCHANGED << config, now, widgets, fnvars >>

\* lines 173-244: sidebar, header, banner, status cards
RenderOverview ==
    /\ pc = "sidebar" /\ ~clicked
    /\ LET v == view \o << "sidebar", "header", Banner(agg.overall),
                          IF SERVICES = << >> THEN "no-services" ELSE "cards" >>
       IN  IF ~DO_TOKEN
           THEN Goto("logs", "none", 0, v \o << "metrics-disabled", "metrics-disabled" >>)
           ELSE EnterCards(1, v)
    /\ UNCHANGED << config, now, cache, widgets, clicked, locals, calls, lastCall,
                    fetched, pre, trigger, fnvars >>

CardKey(metric) == MetricKey(metric, SERVICES[i].droplet_id, hours)

\* lines 255-266 and 293-304: the CPU card
FetchCpu ==
    /\ pc = "cpu"
    /\ \E o \in Outcomes(CardKey("cpu")) :
          /\ Called(CardKey("cpu"), o)
          /\ IF ~o.ok THEN Crash
             ELSE Goto("avail", tab, i,
                       Append(view, IF o.val = EmptyFrame THEN "cpu-info" ELSE "cpu-chart"))
    /\ UNCHANGED << config, now, widgets, clicked, locals, trigger, fnvars >>

\* line 128
FetchAvail ==
    /\ pc = "avail"
    /\ \E o \in Outcomes(CardKey("memory_available")) :
          /\ Called(CardKey("memory_available"), o)
          /\ IF ~o.ok THEN Crash /\ avail' = avail
             ELSE Goto("total", tab, i, view) /\ avail' = o.val
    /\ UNCHANGED << config, now, widgets, clicked, agg, trigger, fnvars >>

\* lines 129-134, then the memory card, lines 268-276 and 306-314
FetchTotal ==
    /\ pc = "total"
    /\ \E o \in Outcomes(CardKey("memory_total")) :
          /\ Called(CardKey("memory_total"), o)
          /\ IF ~o.ok THEN Crash
             ELSE LET v == Append(view, IF mem_used_pct(avail, o.val) = EmptyFrame
                                        THEN "mem-info" ELSE "mem-chart")
                  IN  IF tab = "overview" THEN EnterCards(i + 1, v)
                      ELSE Goto("logs", "none", 0, v)
    /\ UNCHANGED << config, now, widgets, clicked, locals, trigger, fnvars >>

\* faulty variant: the logs fetch outside a try block
LogsFailureUncaught == Crash

\* lines 323-327: except Exception: logs = [], then the placeholder
LogsFailure == Goto("done", "none", 0, Append(view, "logs-info"))

\* lines 317-340
LoadLogs ==
    /\ pc = "logs"
    /\ \E o \in Outcomes(LogsKey) :
          /\ Called(LogsKey, o)
          /\ IF ~o.ok THEN LogsFailure
             ELSE LET logs == o.val
                      df == IF show_only_errors
                            THEN SelectSeq(logs, LAMBDA r : r.level \in {"error", "fatal"})
                            ELSE logs
                  IN  Goto("done", "none", 0,
                           Append(view, IF logs = << >> THEN "logs-info"
                                        ELSE IF df = << >> THEN "logs-table-empty"
                                        ELSE "logs-table"))
    /\ UNCHANGED << config, now, widgets, clicked, locals, trigger, fnvars >>

(***************************************************************************)
(* The user and the clock.                                                 *)
(***************************************************************************)
Rerun(trig) ==
    /\ cache' = cache
    /\ clicked' = (trig = "click")
    /\ NewPass(trig)
    /\ UNCHANGED << config, now, fetched, fnvars >>

\* faulty variant: an interaction that also empties the cache
RerunCleared(trig) ==
    /\ cache' = << >>
    /\ clicked' = (trig = "click")
    /\ NewPass(trig)
    /\ UNCHANGED << config, now, fetched, fnvars >>

\* line 175
MoveSlider ==
    /\ pc \in Idle /\ Rendered("sidebar")
    /\ \E h \in HoursChoices \ {hours} : hours' = h
    /\ UNCHANGED show_only_errors
    /\ Rerun("slider")

\* faulty variant of the toggle, see RerunCleared
FlipToggleClearing ==
    /\ pc \in Idle /\ Rendered("sidebar")
    /\ show_only_errors' = ~show_only_errors
    /\ UNCHANGED hours
    /\ RerunCleared("toggle")

\* line 176
FlipToggle ==
    /\ pc \in Idle /\ Rendered("sidebar")
    /\ show_only_errors' = ~show_only_errors
    /\ UNCHANGED hours
    /\ Rerun("toggle")

\* line 177: the press starts a pass in which st.button returns True
PressRefresh ==
    /\ pc \in Idle /\ Rendered("sidebar")
    /\ UNCHANGED widgets
    /\ Rerun("click")

\* the page is loaded again: a new session, the widgets at their defaults,
\* the process-wide cache kept
Reload ==
    /\ pc \in Idle
    /\ hours' = RANGE_HOURS
    /\ show_only_errors' = FALSE
    /\ Rerun("load")

\* the clock; it may advance between any two steps of a pass: the requests block
Tick ==
    /\ now <= MaxTime
    /\ now' = now + TickStep
    /\ UNCHANGED << config, cache, widgets, clicked, pc, tab, i, locals, view, calls,
                    lastCall, fetched, pre, trigger, fnvars >>

\* the dashboard's variables while a function is specified on its own
Parked ==
    /\ DO_TOKEN = TRUE /\ now = 0 /\ cache = << >>
    /\ hours = RANGE_HOURS /\ show_only_errors = FALSE /\ clicked = FALSE
    /\ tab = "none" /\ i = 0
    /\ view = << >> /\ calls = 0 /\ lastCall = NoCall
    /\ fetched = << >> /\ pre = {} /\ trigger = "load"

NoPayload == [top |-> "none", data |-> "absent", result |-> "absent", series |-> << >>]

Init ==
    /\ SERVICES \in ServiceConfigs
    /\ DO_TOKEN \in BOOLEAN
    /\ now = 0
    /\ cache = << >>
    /\ hours = RANGE_HOURS
    /\ show_only_errors = FALSE
    /\ clicked = FALSE
    /\ pc = "summary" /\ tab = "none" /\ i = 0
    /\ agg = NoAggregate /\ avail = EmptyFrame
    /\ view = << >> /\ calls = 0 /\ lastCall = NoCall
    /\ fetched = << >> /\ pre = {}
    /\ trigger = "load"
    /\ summary = NoSummary /\ total = EmptyFrame /\ mem = EmptyFrame
    /\ payload = NoPayload /\ parsed = EmptyFrame

Next ==
    \/ LoadSummary
    \/ Refresh
    \/ RenderOverview
    \/ FetchCpu
    \/ FetchAvail
    \/ FetchTotal
    \/ LoadLogs
    \/ MoveSlider
    \/ FlipToggle
    \/ PressRefresh
    \/ Reload
    \/ Tick

Spec == Init /\ [][Next]_vars

(***************************************************************************)
(* _parse_matrix on its own: every payload of the bounded shapes.          *)
(***************************************************************************)
SeqsUpTo(S, n) == UNION { [1..m -> S] : m \in 0..n }

TsScalars ==
    { Sc("int", 1), Sc("int", 2), Sc("float", 1), Sc("floatstr", 1), Sc("null", 0) }

ValScalars ==
    { Sc("float", 1), Sc("intstr", 30), Sc("badstr", 0), Sc("null", 0) }

Entries ==
    { Pair(t, v) : t \in TsScalars, v \in ValScalars }
    \cup { [shape |-> "str2", ts |-> t, val |-> v] :
             t \in {Sc("intstr", 1), Sc("badstr", 0)},
             v \in {Sc("intstr", 2), Sc("badstr", 0)} }
    \cup { [shape |-> sh, ts |-> Sc("int", 1), val |-> Sc("float", 1)] :
             sh \in {"one", "three", "scalar"} }

\* the first result series with at most n entries under "values"
FirstSeries(n) ==
    { [kind |-> "other", values |-> "absent", entries |-> << >>],
      [kind |-> "dict", values |-> "absent", entries |-> << >>],
      [kind |-> "dict", values |-> "other", entries |-> << >>] }
    \cup { Series(es) : es \in SeqsUpTo(Entries, n) }

SecondSeries == Series(<< Pair(Sc("int", 2), Sc("intstr", 30)) >>)

Payloads(n) ==
    { [top |-> "other", data |-> "absent", result |-> "absent", series |-> << >>] }
    \cup { [top |-> "dict", data |-> d, result |-> "absent", series |-> << >>] :
             d \in {"absent", "null", "other"} }
    \cup { [top |-> "dict", data |-> "dict", result |-> r, series |-> << >>] :
             r \in {"absent", "null", "other", "list"} }
    \cup { Matrix(<< f >>) : f \in FirstSeries(n) }
    \cup { Matrix(<< f, SecondSeries >>) : f \in FirstSeries(n) }

InitParse ==
    /\ Parked
    /\ SERVICES = << >>
    /\ pc = "call"
    /\ agg = NoAggregate /\ avail = EmptyFrame
    /\ summary = NoSummary /\ total = EmptyFrame /\ mem = EmptyFrame
    /\ payload \in Payloads(MaxPairs) /\ parsed = EmptyFrame

Parse ==
    /\ pc = "call"
    /\ parsed' = _parse_matrix(payload)
    /\ pc' = "return"
    /\ UNCHANGED << config, now, cache, widgets, clicked, tab, i, locals, view, calls,
                    lastCall, fetched, pre, trigger, summary, total, mem, payload >>

SpecParse == InitParse /\ [][Parse]_vars

(***************************************************************************)
(* mem_used_pct on its own: every pair of frames of the bounded shapes.    *)
(***************************************************************************)
Timestamps == {1, 2, 3}

AvailRows == { Row(t, n) : t \in Timestamps, n \in {0, 30} }
TotalRows == { Row(t, n) : t \in Timestamps, n \in {0, 100} }

InitMem ==
    /\ Parked
    /\ SERVICES = << >>
    /\ pc = "call"
    /\ agg = NoAggregate
    /\ avail \in SeqsUpTo(AvailRows, MaxPairs)
    /\ total \in SeqsUpTo(TotalRows, MaxPairs)
    /\ mem = EmptyFrame
    /\ summary = NoSummary
    /\ payload = NoPayload /\ parsed = EmptyFrame

MemUsed ==
    /\ pc = "call"
    /\ mem' = mem_used_pct(avail, total)
    /\ pc' = "return"
    /\ UNCHANGED << config, now, cache, widgets, clicked, tab, i, locals, view, calls,
                    lastCall, fetched, pre, trigger, summary, total, payload, parsed >>

SpecMem == InitMem /\ [][MemUsed]_vars

(***************************************************************************)
(* The status aggregation on its own: every service list and summary of    *)
(* the bounded shapes.                                                     *)
(***************************************************************************)
ComponentEntries ==
    { Comp("absent", PyAbsent), Comp("null", PyAbsent) }
    \cup { Comp("dict", st) : st \in {PyAbsent, PyNone, PyNumber} \cup StatusStrings }

Summaries ==
    { [top |-> "other", components |-> "absent",
       comps |-> [k \in ServiceKeys |-> Comp("absent", PyAbsent)]] }
    \cup { [top |-> "dict", components |-> c,
            comps |-> [k \in ServiceKeys |-> Comp("absent", PyAbsent)]] :
             c \in {"absent", "null"} }
    \cup { [top |-> "dict", components |-> "dict", comps |-> m] :
             m \in [ServiceKeys -> ComponentEntries] }

InitAgg ==
    /\ Parked
    /\ SERVICES \in SeqsUpTo({ Svc(k, "") : k \in ServiceKeys }, MaxServices)
    /\ pc = "call"
    /\ agg = NoAggregate /\ avail = EmptyFrame
    /\ summary \in Summaries
    /\ total = EmptyFrame /\ mem = EmptyFrame
    /\ payload = NoPayload /\ parsed = EmptyFrame

AggregateStatuses ==
    /\ pc = "call"
    /\ agg' = Aggregate(SERVICES, summary)
    /\ pc' = "return"
    /\ UNCHANGED << config, now, cache, widgets, clicked, tab, i, avail, view, calls,
                    lastCall, fetched, pre, trigger, fnvars >>

SpecAgg == InitAgg /\ [][AggregateStatuses]_vars

(***************************************************************************)
(* Properties.                                                             *)
(***************************************************************************)
CallMade == calls > 0

\* seconds between the latest call and the previous network call for its key
SincePrev == lastCall.at - lastCall.prevAt

ShortCircuit(k) == k[1] = "do_metric" /\ (~DO_TOKEN \/ k[3] = "")

\* C1, as stated: of two calls with identical arguments less than the TTL
\* apart (no cache clear in between) the second invokes no network call, and
\* a call made once the TTL has elapsed since the key's fetch invokes one.
C1_Original ==
    CallMade /\ lastCall.prevAt >= 0 =>
        /\ SincePrev < TTL(lastCall.key) => ~lastCall.net
        /\ SincePrev >= TTL(lastCall.key) => lastCall.net

\* C1, amended: a call less than the TTL after a fetch of its key that
\* succeeded is served from the cache without a network call; a call made
\* once the TTL has elapsed since the fetch invokes the network; and a call
\* that follows a fetch that raised invokes the network again, however soon.
C1_Amended ==
    CallMade /\ lastCall.prevAt >= 0 =>
        /\ lastCall.prevOk /\ SincePrev < TTL(lastCall.key)
              => lastCall.hit /\ ~lastCall.net
        /\ SincePrev >= TTL(lastCall.key) => lastCall.net /\ ~lastCall.hit
        /\ ~lastCall.prevOk => lastCall.net

\* a metric is fetched again once 30 s have passed since its successful fetch
C1_Witness ==
    /\ CallMade
    /\ lastCall.key[1] = "do_metric"
    /\ lastCall.prevOk
    /\ SincePrev >= DO_TTL
    /\ lastCall.net

\* C2: a metric fetch that fails does not end the render pass: no exception
\* is shown and the pass goes on to the remaining cards and the log table.
C2_MetricFailureNonFatal ==
    CallMade /\ lastCall.key[1] = "do_metric" /\ ~lastCall.ok =>
        pc # "crashed" /\ ~Rendered("exception")

\* C3: when the summary fetch fails the pass shows the error and halts: no
\* aggregation is rendered and the failed fetch is the only call of the pass.
C3_SummaryFailureHalts ==
    /\ CallMade /\ lastCall.key = SummaryKey /\ ~lastCall.ok => pc = "halted"
    /\ pc = "halted" =>
          /\ view = << "error" >>
          /\ agg = NoAggregate
          /\ calls = 1 /\ lastCall.key = SummaryKey /\ ~lastCall.ok /\ lastCall.net

\* the summary fetch fails in a pass that found earlier results in the cache
C3_Witness == pc = "halted" /\ DOMAIN cache # {} /\ view = << "error" >>

\* C4: the pass that follows the refresh handler starts with an empty cache,
\* and none of its calls is served from an entry stored before the refresh:
\* each invokes the network, or is served from an entry this pass stored, or
\* is a metric call without token or droplet id.
C4_RefreshBypassesCache ==
    trigger = "refresh" =>
        /\ pre = {}
        /\ calls = 0 => cache = << >>
        /\ calls > 0 =>
              /\ ~lastCall.old
              /\ lastCall.net \/ lastCall.hit \/ ShortCircuit(lastCall.key)
              /\ lastCall.prevAt = -1 /\ ~ShortCircuit(lastCall.key) => lastCall.net

\* after a refresh the summary is fetched again in the very second in which
\* it was fetched before
C4_Witness ==
    /\ trigger = "refresh" /\ now = 0
    /\ calls = 1 /\ lastCall.key = SummaryKey /\ lastCall.net /\ lastCall.ok

\* C5: when the logs fetch fails the pass ends normally with the 'no logs'
\* placeholder, and what was rendered before it stays as it was.
C5_LogsFailureNonFatal ==
    /\ [](CallMade /\ lastCall.key = LogsKey /\ ~lastCall.ok =>
             /\ pc = "done"
             /\ view[Len(view)] = "logs-info"
             /\ Rendered("header") /\ ~Rendered("exception"))
    /\ [][pc = "logs" /\ pc' # "logs" =>
             /\ pc' = "done"
             /\ Len(view') = Len(view) + 1
             /\ SubSeq(view', 1, Len(view)) = view]_vars

\* the logs fetch fails after the status cards and a CPU chart were rendered
C5_Witness ==
    /\ pc = "done" /\ lastCall.key = LogsKey /\ ~lastCall.ok
    /\ Rendered("cards") /\ Rendered("cpu-chart")
    /\ view[Len(view)] = "logs-info"

\* C10, as stated: in the pass that follows a slider move, a toggle flip or
\* a refresh, no call is served from an entry cached before the interaction.
C10_Original ==
    CallMade /\ trigger \in {"slider", "toggle", "refresh"} => ~lastCall.old

\* C10, amended: every interaction starts a new render pass and leaves the
\* cache as it is; entries leave the cache only in the refresh handler,
\* which empties it; after a slider move or a toggle flip a call whose key
\* was fetched less than its TTL ago is served from the cache.
C10_Amended ==
    /\ [](CallMade /\ trigger \in {"slider", "toggle"}
             /\ lastCall.prevOk /\ SincePrev < TTL(lastCall.key) => lastCall.hit)
    /\ [][/\ pc \in Idle /\ pc' # pc => pc' = "summary" /\ view' = << >> /\ cache' = cache
          /\ pc = "sidebar" /\ clicked /\ pc' # pc => pc' = "summary" /\ cache' = << >>
          /\ (\E k \in DOMAIN cache : k \notin DOMAIN cache') => pc = "sidebar" /\ clicked
         ]_vars

\* after a toggle flip the summary is served from the entry cached before it
C10_Witness ==
    /\ trigger = "toggle" /\ CallMade
    /\ lastCall.key = SummaryKey /\ lastCall.old

(***************************************************************************)
(* Properties of the status aggregation.                                   *)
(***************************************************************************)
Configured == 1..Len(SERVICES)

NoMapping == summary.top # "dict" \/ summary.components = "absent"

\* the service's key, entry or status field is absent or unset
Unset(n) ==
    \/ NoMapping
    \/ summary.comps[SERVICES[n].key].entry # "dict"
    \/ summary.comps[SERVICES[n].key].status \in {PyAbsent, PyNone}

Reported(n) == summary.comps[SERVICES[n].key].status

IsDown(n) == ~Unset(n) /\ Reported(n) \in {"down", "DOWN"}
IsUp(n) == ~Unset(n) /\ Reported(n) \in {"up", "UP", "Up"}

Downs == Cardinality({ n \in Configured : IsDown(n) })
Ups == Cardinality({ n \in Configured : IsUp(n) })
Unknowns == Cardinality({ n \in Configured : ~IsDown(n) /\ ~IsUp(n) })

\* C6: the verdict is DOWN if a service is down, else DEGRADED if one is
\* unknown, else OK, and the three counts add up to the number of services.
C6_Verdict ==
    pc = "return" /\ agg.ok =>
        /\ agg.down = Downs /\ agg.up = Ups /\ agg.unk = Unknowns
        /\ agg.up + agg.down + agg.unk = Len(SERVICES)
        /\ agg.overall = IF Downs > 0 THEN "DOWN"
                         ELSE IF Unknowns > 0 THEN "DEGRADED" ELSE "OK"

\* one service down, one unknown: DOWN
C6_Witness ==
    /\ pc = "return" /\ agg.ok
    /\ agg.down = 1 /\ agg.unk >= 1 /\ agg.overall = "DOWN"

\* C7: when every configured service is unset or reports a string, the
\* aggregation does not raise, counts every unset service as unknown and
\* compares the strings with up and down without regard to case.
C7_UnsetIsUnknown ==
    /\ pc = "return"
    /\ ~(summary.top = "dict" /\ summary.components = "null")
    /\ \A n \in Configured : Unset(n) \/ Reported(n) \in StatusStrings
    =>  /\ agg.ok
        /\ agg.unk >= Cardinality({ n \in Configured : Unset(n) })
        /\ agg.up = Ups /\ agg.down = Downs

\* a service whose key is absent beside one that reports "UP"
C7_Witness ==
    /\ pc = "return" /\ agg.ok
    /\ summary.top = "dict" /\ summary.components = "dict"
    /\ Len(SERVICES) = 2
    /\ summary.comps[SERVICES[1].key].entry = "absent"
    /\ summary.comps[SERVICES[2].key] = Comp("dict", "UP")
    /\ agg.unk = 1 /\ agg.up = 1

(***************************************************************************)
(* Properties of mem_used_pct.                                             *)
(***************************************************************************)
TsOf(frame) == { frame[n].ts : n \in 1..Len(frame) }
RowsAt(frame, t) == { n \in 1..Len(frame) : frame[n].ts = t }
StrictlyAscending(frame) == \A m, n \in 1..Len(frame) : m < n => frame[m].ts < frame[n].ts

\* every sample is (1 - available/total) * 100 of two rows of its timestamp
ValuesDerived ==
    \A n \in 1..Len(mem) :
        \E a \in RowsAt(avail, mem[n].ts), b \in RowsAt(total, mem[n].ts) :
            mem[n].value = UsedPct(avail[a].value, total[b].value)

OnePerCommonTimestamp ==
    /\ \A t \in TsOf(avail) \cap TsOf(total) : Cardinality(RowsAt(mem, t)) = 1
    /\ TsOf(mem) \subseteq TsOf(avail) \cap TsOf(total)
    /\ StrictlyAscending(mem)

\* C8, as stated: empty if either series is empty, else exactly one sample
\* per timestamp present in both series, in ascending order of timestamp.
C8_Original ==
    pc = "return" =>
        IF avail = << >> \/ total = << >> THEN mem = EmptyFrame
        ELSE OnePerCommonTimestamp /\ ValuesDerived

\* C8, amended: empty if either series is empty, else one sample per pair of
\* an available row and a total row of equal timestamp, none for a timestamp
\* of one series only, in the order of the available series; so exactly one
\* per common timestamp, ascending, when both series are strictly ascending.
C8_Amended ==
    pc = "return" =>
        IF avail = << >> \/ total = << >> THEN mem = EmptyFrame
        ELSE /\ \A t \in TsOf(avail) \cup TsOf(total) \cup TsOf(mem) :
                   Cardinality(RowsAt(mem, t))
                       = Cardinality(RowsAt(avail, t)) * Cardinality(RowsAt(total, t))
             /\ \A m, n \in 1..Len(mem) :
                   m < n => \E a, b \in 1..Len(avail) :
                               a <= b /\ avail[a].ts = mem[m].ts /\ avail[b].ts = mem[n].ts
             /\ ValuesDerived
             /\ StrictlyAscending(avail) /\ StrictlyAscending(total)
                   => OnePerCommonTimestamp

\* two ascending series that share one timestamp and each have one more
C8_Witness ==
    /\ pc = "return"
    /\ Len(avail) = 2 /\ Len(total) = 2
    /\ StrictlyAscending(avail) /\ StrictlyAscending(total)
    /\ Cardinality(TsOf(avail) \cap TsOf(total)) = 1
    /\ Len(mem) = 1 /\ mem[1].value = Frac(70, 1)

(***************************************************************************)
(* Properties of _parse_matrix.                                            *)
(***************************************************************************)
\* the payload has a first result series with a list under "values"
Structured ==
    /\ payload.top = "dict" /\ payload.data = "dict" /\ payload.result = "list"
    /\ payload.series # << >>
    /\ payload.series[1].kind = "dict" /\ payload.series[1].values = "list"

FirstEntries == payload.series[1].entries

\* [epochSeconds, stringOrNumber]
ValidEntry(e) ==
    /\ e.shape = "pair"
    /\ e.ts.kind = "int"
    /\ e.val.kind \in {"int", "float", "intstr", "floatstr"}

\* not a pair, or a pair with an item that is no number
MalformedEntry(e) ==
    \/ e.shape # "pair"
    \/ e.ts.kind \in {"badstr", "null"}
    \/ e.val.kind \in {"badstr", "null"}

\* the entry does not unpack into two items, or int() or float() refuses one
RejectedEntry(e) ==
    \/ e.shape \in {"one", "three", "scalar"}
    \/ e.ts.kind \in {"floatstr", "badstr", "null"}
    \/ e.val.kind \in {"badstr", "null"}

ExpectedValue(x) ==
    IF x.kind \in {"int", "intstr"} THEN [num |-> x.n, den |-> 1]
    ELSE [num |-> 2 * x.n + 1, den |-> 2]

\* the N entries of the first series, converted, in input order
AllSamples ==
    /\ Len(parsed) = Len(FirstEntries)
    /\ \A n \in 1..Len(parsed) :
          /\ parsed[n].ts = FirstEntries[n].ts.n
          /\ parsed[n].value = ExpectedValue(FirstEntries[n].val)

\* C9, as stated: N samples in input order for a valid payload; the empty
\* series for a missing or empty result and for any malformed shape or
\* non-numeric value in the first series.
C9_Original ==
    pc = "return" =>
        /\ Structured /\ (\A n \in 1..Len(FirstEntries) : ValidEntry(FirstEntries[n]))
              => AllSamples
        /\ ~Structured => parsed = EmptyFrame
        /\ Structured /\ (\E n \in 1..Len(FirstEntries) : MalformedEntry(FirstEntries[n]))
              => parsed = EmptyFrame

\* C9, amended: N samples in input order for a valid payload; the empty
\* series for a missing or empty result and whenever an entry of the first
\* series does not unpack into two items or has an item that int() or
\* float() refuses.
C9_Amended ==
    pc = "return" =>
        /\ Structured /\ (\A n \in 1..Len(FirstEntries) : ValidEntry(FirstEntries[n]))
              => AllSamples
        /\ ~Structured => parsed = EmptyFrame
        /\ Structured /\ (\E n \in 1..Len(FirstEntries) : RejectedEntry(FirstEntries[n]))
              => parsed = EmptyFrame
        /\ Structured /\ (\A n \in 1..Len(FirstEntries) : ~RejectedEntry(FirstEntries[n]))
              => AllSamples

\* two valid pairs, the later timestamp first, and a second series
C9_Witness ==
    /\ pc = "return" /\ Structured
    /\ Len(payload.series) = 2
    /\ Len(FirstEntries) = 2
    /\ \A n \in 1..2 : ValidEntry(FirstEntries[n])
    /\ FirstEntries[1].ts.n = 2 /\ FirstEntries[2].ts.n = 1
    /\ Len(parsed) = 2 /\ parsed[1].ts = 2

====
